---------------------------- MODULE Spec2Model ----------------------------
(***************************************************************************)
(* TaskTrigger (Qlik Sense extension): the start flow, the check flow and  *)
(* the normalizer fetchTaskLastResult of src/TaskTrigger.js.               *)
(*                                                                         *)
(* Texts are tuples of one-character strings, so that the regular          *)
(* expressions, toLowerCase and the template literals of the source are    *)
(* computed character by character.  JavaScript values are tagged records  *)
(* (JNull, JStr, JNum, JObj); numbers that may be NaN are Num(n) / NaN.    *)
(***************************************************************************)
EXTENDS Integers, Sequences, FiniteSets, TLC

VARIABLES
    paints,     \* one record per paint() call: captured configuration and the two <pre> regions
    flows,      \* the asynchronous onclick invocations launched so far
    requests,   \* the fetch() calls issued and not yet answered
    clicks,     \* number of button clicks so far
    npc,        \* normalizer harness: "call" before, "returned" after fetchTaskLastResult's body
    nin,        \* normalizer harness: the response, body, task id and clock reading given to it
    nout,       \* normalizer harness: the value it returned
    nblock      \* normalizer harness: the block the check handler renders from that value

vars == <<paints, flows, requests, clicks, npc, nin, nout, nblock>>

-----------------------------------------------------------------------------
(* Bounds *)

MaxCode == 11
MaxClicks == 1
MaxPaints == 1

MinCode == 0 - 1

-----------------------------------------------------------------------------
(* Text literals *)

T_Unknown == <<"U","n","k","n","o","w","n">>
T_Triggered == <<"T","r","i","g","g","e","r","e","d">>
T_StartedRunning == <<"S","t","a","r","t","e","d","/","R","u","n","n","i","n","g">>
T_Queued == <<"Q","u","e","u","e","d">>
T_Aborted == <<"A","b","o","r","t","e","d">>
T_Succeeded == <<"S","u","c","c","e","e","d","e","d">>
T_Failed == <<"F","a","i","l","e","d">>
T_Skipped == <<"S","k","i","p","p","e","d">>
T_Retrying == <<"R","e","t","r","y","i","n","g">>
T_StatusHash == <<"S","t","a","t","u","s"," ","#">>
T_Hyphen == <<"-">>
T_running == <<"r","u","n","n","i","n","g">>
T_NaN == <<"N","a","N">>
T_RUNNINGnow == <<"R","U","N","N","I","N","G"," ","n","o","w">>
T_Done == <<"D","o","n","e">>
T_Run == <<"R","u","n">>
T_garbage == <<"g","a","r","b","a","g","e">>
T_notaguid == <<"n","o","t","-","a","-","g","u","i","d">>
T_jwt == <<"/","j","w","t">>
T_ReloadA == <<"R","e","l","o","a","d"," ","A">>
T_readPath == <<"/","q","r","s","/","r","e","l","o","a","d","t","a","s","k","/">>
T_startPath == <<"/","q","r","s","/","t","a","s","k","/">>
T_startSuffix == <<"/","s","t","a","r","t">>
T_xrfkey == <<"x","r","f","k","e","y","=">>
T_2024_01 == <<"2","0","2","4","-","0","1","-">>
UpperLetters == <<"A","B","C","D","E","F","G","H","I","J","K","L","M","N","O","P","Q","R","S","T","U","V","W","X","Y","Z">>
LowerLetters == <<"a","b","c","d","e","f","g","h","i","j","k","l","m","n","o","p","q","r","s","t","u","v","w","x","y","z">>
DigitChars == <<"0","1","2","3","4","5","6","7","8","9">>

\* the em-dash placeholder (U+2014) of fmtDate, fmtMs and of the duration default,
\* one character, written by its name
Dash == <<"EMDASH">>

Rep(c, n) == [i \in 1..n |-> c]

Range(s) == {s[i] : i \in DOMAIN s}

-----------------------------------------------------------------------------
(* JavaScript strings *)

\* String.prototype.toLowerCase on one character
LowerChar(c) ==
    IF \E i \in DOMAIN UpperLetters : UpperLetters[i] = c
    THEN LowerLetters[CHOOSE i \in DOMAIN UpperLetters : UpperLetters[i] = c]
    ELSE c

toLowerCase(s) == [i \in DOMAIN s |-> LowerChar(s[i])]

\* s.indexOf(p) >= 0
Contains(s, p) ==
    \E k \in 0..(Len(s) - Len(p)) : \A i \in 1..Len(p) : s[k + i] = p[i]

\* /p/i.test(s) for a pattern p of lower-case letters
TestIgnoreCase(p, s) == Contains(toLowerCase(s), p)

DigitVal(c) == (CHOOSE i \in DOMAIN DigitChars : DigitChars[i] = c) - 1

IsDigit(c) == \E i \in DOMAIN DigitChars : DigitChars[i] = c

RECURSIVE NatToStr(_)
NatToStr(n) ==
    IF n < 10 THEN <<DigitChars[n + 1]>>
    ELSE NatToStr(n \div 10) \o <<DigitChars[(n % 10) + 1]>>

\* `${n}` for an integer n
IntToStr(n) == IF n < 0 THEN <<"-">> \o NatToStr(0 - n) ELSE NatToStr(n)

-----------------------------------------------------------------------------
(* JavaScript values, as JSON.parse produces them *)

JNull == [t |-> "null"]                 \* null, undefined, or a missing property
JStr(s) == [t |-> "str", s |-> s]
JNum(n) == [t |-> "num", n |-> n]
JObj(f) == [t |-> "obj", f |-> f]

\* ToBoolean
Truthy(v) ==
    CASE v.t = "null" -> FALSE
      [] v.t = "str" -> v.s # <<>>
      [] v.t = "num" -> v.n # 0
      [] OTHER -> TRUE

\* a || b
Or(a, b) == IF Truthy(a) THEN a ELSE b

\* v?.k : a missing property, or a property of null or of a primitive, is undefined
Get(v, k) == IF v.t = "obj" /\ k \in DOMAIN v.f THEN v.f[k] ELSE JNull

\* numbers of date arithmetic
Num(n) == [nan |-> FALSE, v |-> n]
NaN == [nan |-> TRUE, v |-> 0]

Sub(a, b) == IF a.nan \/ b.nan THEN NaN ELSE Num(a.v - b.v)

-----------------------------------------------------------------------------
(* Dates: the timestamps are ISO strings "2024-01-DDTHH:MM:SSZ"; times are  *)
(* milliseconds since 2024-01-01T00:00:00Z.                                 *)

D2(n) == <<DigitChars[(n \div 10) + 1], DigitChars[(n % 10) + 1]>>

\* the ISO text of the instant `sec` seconds after the epoch of the model
IsoOfSec(sec) ==
    T_2024_01 \o D2((sec \div 86400) + 1) \o <<"T">> \o D2((sec % 86400) \div 3600)
        \o <<":">> \o D2((sec % 3600) \div 60) \o <<":">> \o D2(sec % 60) \o <<"Z">>

N2(s, i) == 10 * DigitVal(s[i]) + DigitVal(s[i + 1])

\* Date.parse restricted to the ISO form above; any other text is an Invalid Date
ParseDate(s) ==
    IF /\ Len(s) = 20
       /\ SubSeq(s, 1, 8) = T_2024_01
       /\ s[11] = "T" /\ s[14] = ":" /\ s[17] = ":" /\ s[20] = "Z"
       /\ \A i \in {9, 10, 12, 13, 15, 16, 18, 19} : IsDigit(s[i])
       /\ N2(s, 9) \in 1..31 /\ N2(s, 12) \in 0..23
       /\ N2(s, 15) \in 0..59 /\ N2(s, 18) \in 0..59
    THEN Num(((((N2(s, 9) - 1) * 24 + N2(s, 12)) * 60 + N2(s, 15)) * 60 + N2(s, 18)) * 1000)
    ELSE NaN

\* +new Date(v)
NewDate(v) ==
    CASE v.t = "str" -> ParseDate(v.s)
      [] v.t = "num" -> Num(v.n)
      [] OTHER -> NaN

-----------------------------------------------------------------------------
(* Helpers of the source *)

\* String(v) for the values the formatters meet
ToText(v) ==
    CASE v.t = "str" -> v.s
      [] v.t = "num" -> IntToStr(v.n)
      [] OTHER -> <<>>

\* d.toLocaleString("en-GB", ...): "DD/MM/YYYY, HH:MM:SS", with the host in UTC
LocaleString(ms) ==
    LET sec == ms \div 1000 IN
    D2((sec \div 86400) + 1) \o <<"/","0","1","/","2","0","2","4",","," ">>
        \o D2((sec % 86400) \div 3600) \o <<":">> \o D2((sec % 3600) \div 60)
        \o <<":">> \o D2(sec % 60)

\* mutant: a value that is no date gives the placeholder
fmtDate_PlaceholderOnly(s) ==
    IF ~Truthy(s) THEN Dash
    ELSE LET d == NewDate(s) IN
         IF d.nan THEN Dash ELSE LocaleString(d.v)

fmtDate(s) ==
    IF ~Truthy(s) THEN Dash
    ELSE LET d == NewDate(s) IN
         IF d.nan THEN (IF ToText(s) # <<>> THEN ToText(s) ELSE Dash)
         ELSE LocaleString(d.v)

\* mutant: the milliseconds are cut off, not rounded
RoundSec_Truncated(ms) == ms \div 1000

\* Math.round(ms / 1000): halves round towards +Infinity
RoundSec(ms) == (ms + 500) \div 1000

\* Math.max(0, x)
Max0(x) == IF x < 0 THEN 0 ELSE x

\* `${h}h ${m}m ${s}s`
HMS(h, m, s) == h \o <<"h"," ">> \o m \o <<"m"," ">> \o s \o <<"s">>

\* ms is null or a number; Math.round, Math.max, Math.floor and % all give NaN on NaN
fmtMs(ms) ==
    IF ms = JNull THEN Dash
    ELSE IF ms.nan THEN HMS(T_NaN, T_NaN, T_NaN)
    ELSE LET sec == Max0(RoundSec(ms.v)) IN
         HMS(IntToStr(sec \div 3600), IntToStr((sec % 3600) \div 60), IntToStr(sec % 60))

statusMap ==
    (0 :> T_Unknown) @@ (1 :> T_Triggered) @@ (2 :> T_StartedRunning) @@ (3 :> T_Queued)
    @@ (6 :> T_Aborted) @@ (7 :> T_Succeeded) @@ (8 :> T_Failed) @@ (9 :> T_Skipped)
    @@ (10 :> T_Retrying)

-----------------------------------------------------------------------------
(* HTTP responses and bodies *)

\* res.ok
ResOk(res) == res.status \in 200..299

\* body texts: the empty text, a text JSON.parse rejects, or the JSON text of a document
EmptyBody == [kind |-> "empty"]
MalformedBody == [kind |-> "malformed"]
JsonBody(doc) == [kind |-> "json", doc |-> doc]

\* txt ? JSON.parse(txt) : null, inside try { } catch {} : threw tells whether the
\* catch was entered, value is what the assigned variable then holds
ParseBody(txt) ==
    CASE txt.kind = "empty" -> [threw |-> FALSE, value |-> JNull]
      [] txt.kind = "malformed" -> [threw |-> TRUE, value |-> JNull]
      [] OTHER -> [threw |-> FALSE, value |-> txt.doc]

-----------------------------------------------------------------------------
(* fetchTaskLastResult, from the response on (lines 60-84) *)

stNumOf(ler) == IF Get(ler, "status").t = "num" THEN Get(ler, "status") ELSE JNull

\* mutant: the fallback label loses the code
LabelOf_NoCode(n) ==
    IF n \in DOMAIN statusMap THEN statusMap[n] ELSE T_StatusHash

\* statusMap[stNum] || `Status #${stNum}`
LabelOf(n) ==
    IF n \in DOMAIN statusMap THEN statusMap[n] ELSE T_StatusHash \o IntToStr(n)

stTxtOf(ler) ==
    LET stNum == stNumOf(ler) IN
    Or(Get(ler, "statusText"),
       IF stNum.t = "num" THEN JStr(LabelOf(stNum.n)) ELSE JStr(T_Hyphen))

startOf(ler) == Or(Or(Get(ler, "executionStartTime"), Get(ler, "startTime")), JNull)

stopOf(ler) == Or(Or(Get(ler, "executionStopTime"), Get(ler, "stopTime")), JNull)

\* mutant: the numeric code is not one of the running signals
runningOf_NoCode(ler) ==
    \/ (Truthy(startOf(ler)) /\ ~Truthy(stopOf(ler)))
    \/ TestIgnoreCase(T_running, ToText(stTxtOf(ler)))

runningOf(ler) ==
    LET stNum == stNumOf(ler) IN
    \/ (stNum.t = "num" /\ stNum.n = 2)
    \/ (Truthy(startOf(ler)) /\ ~Truthy(stopOf(ler)))
    \/ TestIgnoreCase(T_running, ToText(stTxtOf(ler)))

\* mutant: the subtraction is the wrong way round
durationOf_Swapped(ler, now) ==
    LET start == startOf(ler)
        stop == stopOf(ler)
    IN  IF Truthy(start) /\ Truthy(stop) THEN fmtMs(Sub(NewDate(start), NewDate(stop)))
        ELSE IF runningOf(ler) /\ Truthy(start) THEN fmtMs(Sub(NewDate(start), Num(now)))
        ELSE Dash

\* new Date(...) never throws, so the catch of lines 79-82 is never entered
durationOf(ler, now) ==
    LET start == startOf(ler)
        stop == stopOf(ler)
    IN  IF Truthy(start) /\ Truthy(stop) THEN fmtMs(Sub(NewDate(stop), NewDate(start)))
        ELSE IF runningOf(ler) /\ Truthy(start) THEN fmtMs(Sub(Num(now), NewDate(start)))
        ELSE Dash

\* mutant: lastExecution is looked at before lastExecutionResult
fetchTaskLastResult_SecondNameFirst(res, txt, taskId, now) ==
    IF ~ResOk(res)
    THEN [name |-> JStr(taskId),
          error |-> [status |-> res.status, statusText |-> res.statusText, body |-> txt]]
    ELSE LET t == ParseBody(txt).value
             name == Or(Get(t, "name"), JStr(taskId))
             ler == Or(Or(Get(Get(t, "operational"), "lastExecution"),
                          Get(Get(t, "operational"), "lastExecutionResult")), JNull)
         IN  IF ~Truthy(ler) THEN [name |-> name, empty |-> TRUE]
             ELSE [name |-> name, statusText |-> stTxtOf(ler), start |-> startOf(ler),
                   stop |-> stopOf(ler), duration |-> durationOf(ler, now),
                   running |-> runningOf(ler)]

\* mutant: the body is parsed before res.ok is looked at, and its name is used
fetchTaskLastResult_ParsesFirst(res, txt, taskId, now) ==
    LET t == ParseBody(txt).value
        name == Or(Get(t, "name"), JStr(taskId))
        ler == Or(Or(Get(Get(t, "operational"), "lastExecutionResult"),
                     Get(Get(t, "operational"), "lastExecution")), JNull)
    IN  IF ~ResOk(res)
        THEN [name |-> name,
              error |-> [status |-> res.status, statusText |-> res.statusText, body |-> txt]]
        ELSE IF ~Truthy(ler) THEN [name |-> name, empty |-> TRUE]
        ELSE [name |-> name, statusText |-> stTxtOf(ler), start |-> startOf(ler),
              stop |-> stopOf(ler), duration |-> durationOf(ler, now),
              running |-> runningOf(ler)]

\* mutant: the catch of line 65 is missing, a body JSON.parse rejects is reported as an
\* error
fetchTaskLastResult_ParseFailureIsError(res, txt, taskId, now) ==
    IF ~ResOk(res) \/ ParseBody(txt).threw
    THEN [name |-> JStr(taskId),
          error |-> [status |-> res.status, statusText |-> res.statusText, body |-> txt]]
    ELSE LET t == ParseBody(txt).value
             name == Or(Get(t, "name"), JStr(taskId))
             ler == Or(Or(Get(Get(t, "operational"), "lastExecutionResult"),
                          Get(Get(t, "operational"), "lastExecution")), JNull)
         IN  IF ~Truthy(ler) THEN [name |-> name, empty |-> TRUE]
             ELSE [name |-> name, statusText |-> stTxtOf(ler), start |-> startOf(ler),
                   stop |-> stopOf(ler), duration |-> durationOf(ler, now),
                   running |-> runningOf(ler)]

fetchTaskLastResult(res, txt, taskId, now) ==
    IF ~ResOk(res)
    THEN [name |-> JStr(taskId),
          error |-> [status |-> res.status, statusText |-> res.statusText, body |-> txt]]
    ELSE LET t == ParseBody(txt).value
             name == Or(Get(t, "name"), JStr(taskId))
             ler == Or(Or(Get(Get(t, "operational"), "lastExecutionResult"),
                          Get(Get(t, "operational"), "lastExecution")), JNull)
         IN  IF ~Truthy(ler) THEN [name |-> name, empty |-> TRUE]
             ELSE [name |-> name, statusText |-> stTxtOf(ler), start |-> startOf(ler),
                   stop |-> stopOf(ler), duration |-> durationOf(ler, now),
                   running |-> runningOf(ler)]

IsError(r) == "error" \in DOMAIN r
IsEmpty(r) == "empty" \in DOMAIN r
IsResult(r) == "running" \in DOMAIN r

-----------------------------------------------------------------------------
(* Inputs *)

\* a task id of the right shape, in mixed case, and the same id in the other cases
G1 == Rep("A", 4) \o Rep("b", 4) \o <<"-">> \o Rep("1", 4) \o <<"-">> \o Rep("C", 4)
        \o <<"-">> \o Rep("d", 4) \o <<"-">> \o Rep("0", 6) \o Rep("E", 6)
G2 == Rep("2", 8) \o <<"-">> \o Rep("f", 4) \o <<"-">> \o Rep("3", 4)
        \o <<"-">> \o Rep("4", 4) \o <<"-">> \o Rep("5", 12)

\* instants, in seconds: 10:00:00, 10:02:00, 10:05:30 on day 1, 11:00:00 on day 2
TimePoints == {36000, 36330, 126000}

\* Date.now() readings, in milliseconds
Nows == {36120000, 36001500}

Iso(sec) == JStr(IsoOfSec(sec))

StatusValues == {JNull, JStr(<<"2">>)} \cup {JNum(n) : n \in MinCode..MaxCode}
StatusTextValues == {JNull, JStr(<<>>), JStr(T_RUNNINGnow), JStr(T_Done), JStr(T_Run)}
TimeValues == {JNull, JStr(<<>>), JStr(T_garbage)} \cup {Iso(sec) : sec \in TimePoints}
FallbackTimeValues == {JNull, Iso(36120)}

\* last-execution records
Lers ==
    {JObj([status |-> st, statusText |-> tx, executionStartTime |-> es, startTime |-> s,
           executionStopTime |-> ep, stopTime |-> p]) :
        st \in StatusValues, tx \in StatusTextValues, es \in TimeValues,
        s \in FallbackTimeValues, ep \in TimeValues, p \in FallbackTimeValues}

TaskDoc(name, ler, le) ==
    JObj([name |-> name,
          operational |-> JObj([lastExecutionResult |-> ler, lastExecution |-> le])])

LerSucceeded ==
    JObj([status |-> JNum(7), executionStartTime |-> Iso(36000),
          executionStopTime |-> Iso(36330)])
LerRunning == JObj([status |-> JNum(2), executionStartTime |-> Iso(36000)])
\* bodies that hold no last-execution record, or hold it in an unusual place
OtherBodies ==
    {EmptyBody, MalformedBody, JsonBody(JNull), JsonBody(JNum(5)),
     JsonBody(JObj([name |-> JStr(T_ReloadA)])),
     JsonBody(JObj([name |-> JStr(T_ReloadA), operational |-> JNull])),
     JsonBody(TaskDoc(JNull, JNull, JNull)),
     JsonBody(TaskDoc(JStr(T_ReloadA), JNull, LerSucceeded)),
     JsonBody(TaskDoc(JStr(T_ReloadA), LerRunning, LerSucceeded)),
     JsonBody(TaskDoc(JNull, LerSucceeded, JNull))}

StatusCodes == {200, 204, 404, 500}

\* the reason phrase the server sends with a status code
ReasonPhrase(status) ==
    CASE status = 200 -> <<"O","K">>
      [] status = 204 -> <<"N","o"," ","C","o","n","t","e","n","t">>
      [] status = 404 -> <<"N","o","t"," ","F","o","u","n","d">>
      [] OTHER -> <<>>

Response(status) == [status |-> status, statusText |-> ReasonPhrase(status)]

NormInputs ==
    {[res |-> Response(200), txt |-> JsonBody(TaskDoc(JStr(T_ReloadA), ler, JNull)),
      taskId |-> G1, now |-> now] : ler \in Lers, now \in Nows}
    \cup
    {[res |-> Response(st), txt |-> b, taskId |-> G1, now |-> 36120000] :
        st \in StatusCodes, b \in OtherBodies}

-----------------------------------------------------------------------------
(* makeXrf and qrsFetch *)

TokenLen == 16

\* makeXrf draws 16 characters of [a-z0-9] at random: two of its outcomes
Tokens == {Rep("k", TokenLen), Rep("7", TokenLen)}

T_appjson == <<"a","p","p","l","i","c","a","t","i","o","n","/","j","s","o","n">>

\* Object.assign(target, source): the source's keys win
Assign(target, source) == source @@ target

\* qrsFetch(vpx, path, opts) with key the value makeXrf returned: the arguments of fetch()
qrsFetch(vpx, path, opts, key) ==
    LET sep == IF Contains(path, <<"?">>) THEN <<"&">> ELSE <<"?">>
        url == ToText(Or(vpx, JStr(<<>>))) \o path \o sep \o T_xrfkey \o key
        headers == Assign([XQlikXrfkey |-> key, Accept |-> T_appjson],
                          IF "headers" \in DOMAIN opts THEN opts.headers ELSE <<>>)
        init == Assign([credentials |-> "include", cache |-> "no-store", headers |-> headers],
                       opts)
    IN  [url |-> url, init |-> init]

-----------------------------------------------------------------------------
(* paint: the view and the two handlers *)

GuidLen == 36

HexClass == {"0","1","2","3","4","5","6","7","8","9","a","b","c","d","e","f",
             "A","B","C","D","E","F","-"}

\* mutant: the pattern without its anchors and its length
IsValidId_Unanchored(tId) == \E i \in DOMAIN tId : tId[i] \in HexClass

\* /^[0-9a-fA-F-]{36}$/.test(tId)
IsValidId(tId) == Len(tId) = GuidLen /\ \A i \in DOMAIN tId : tId[i] \in HexClass

\* what the two <pre> regions can hold
Blank == [kind |-> "blank"]
ConfigWarning == [kind |-> "config-warning"]
Starting == [kind |-> "starting"]
Success == [kind |-> "success"]
Failed(res, txt) ==
    [kind |-> "failed", status |-> res.status, statusText |-> res.statusText, body |-> txt]
NetworkError(msg) == [kind |-> "network-error", message |-> msg]
Fetching == [kind |-> "fetching"]
Report(parts) == [kind |-> "report", parts |-> parts]

\* e.message of a rejected fetch() or res.text()
NetMessages == {<<"F","a","i","l","e","d"," ","t","o"," ","f","e","t","c","h">>}

\* the blocks of the report; forId records the loop variable tId the block was pushed
\* for (bookkeeping, not part of the text)
InvalidBlock(tId) == [kind |-> "invalid", forId |-> tId, name |-> tId]

\* mutant: the completion and duration lines are pushed whatever r.running is
BlockOf_AlwaysDuration(r, tId) ==
    IF IsError(r) THEN [kind |-> "read-error", forId |-> tId, name |-> ToText(r.name),
                        error |-> r.error]
    ELSE IF IsEmpty(r) THEN [kind |-> "no-execution", forId |-> tId, name |-> ToText(r.name)]
    ELSE [kind |-> "status", forId |-> tId, name |-> ToText(r.name),
          lines |-> <<[label |-> "Status", text |-> ToText(r.statusText)],
                      [label |-> "Started", text |-> fmtDate(r.start)],
                      [label |-> "Completed", text |-> fmtDate(r.stop)],
                      [label |-> "Duration", text |-> r.duration]>>]

BlockOf(r, tId) ==
    IF IsError(r) THEN [kind |-> "read-error", forId |-> tId, name |-> ToText(r.name),
                        error |-> r.error]
    ELSE IF IsEmpty(r) THEN [kind |-> "no-execution", forId |-> tId, name |-> ToText(r.name)]
    ELSE [kind |-> "status", forId |-> tId, name |-> ToText(r.name),
          lines |-> <<[label |-> "Status", text |-> ToText(r.statusText)],
                      [label |-> "Started", text |-> fmtDate(r.start)]>>
                    \o (IF ~r.running
                        THEN <<[label |-> "Completed", text |-> fmtDate(r.stop)],
                               [label |-> "Duration", text |-> r.duration]>>
                        ELSE <<>>)]

\* layout.props as the host hands it to paint (the two button labels only caption the
\* buttons and are left out)
Props(taskId, secondTaskId, vpx) ==
    JObj([taskId |-> taskId, secondTaskId |-> secondTaskId, vpx |-> vpx])

Layouts ==
    {JNull,
     Props(JStr(<<>>), JStr(G2), JNull),
     Props(JStr(G1), JNull, JNull),
     Props(JStr(G1), JStr(G2), JStr(T_jwt)),
     Props(JStr(T_notaguid), JStr(G2), JNull),
     Props(JStr(G1), JStr(T_notaguid), JNull)}

\* mutant: the early return of line 162 is missing, the handlers are always assigned
NewPaint_AlwaysMounted(props) ==
    LET taskId1 == ToText(Or(Get(props, "taskId"), JStr(<<>>)))
        taskId2 == ToText(Or(Get(props, "secondTaskId"), JStr(<<>>)))
        vpx == Or(Get(props, "vpx"), JStr(<<>>))
    IN  [taskId1 |-> taskId1, taskId2 |-> taskId2, vpx |-> vpx,
         log |-> IF taskId1 = <<>> THEN ConfigWarning ELSE Blank,
         status |-> Blank,
         mounted |-> TRUE]

\* the state one paint() call creates: the captured constants, the two regions, and
\* whether the onclick handlers were assigned
NewPaint(props) ==
    LET taskId1 == ToText(Or(Get(props, "taskId"), JStr(<<>>)))
        taskId2 == ToText(Or(Get(props, "secondTaskId"), JStr(<<>>)))
        vpx == Or(Get(props, "vpx"), JStr(<<>>))
    IN  [taskId1 |-> taskId1, taskId2 |-> taskId2, vpx |-> vpx,
         log |-> IF taskId1 = <<>> THEN ConfigWarning ELSE Blank,
         status |-> Blank,
         mounted |-> taskId1 # <<>>]

\* the regions and buttons of the latest paint are the ones in the document
HasView == paints # <<>>
View == paints[Len(paints)]

\* the host calls paint with one of the layouts; limit bounds the paints of a run
Painted(limit, layouts) ==
    /\ Len(paints) < limit
    /\ \E props \in layouts : paints' = Append(paints, NewPaint(props))
    /\ UNCHANGED <<flows, requests, clicks, npc, nin, nout, nblock>>

Paint == Painted(MaxPaints, Layouts)

-----------------------------------------------------------------------------
(* The flows.  A flow is one invocation of an onclick handler; gen is the paint whose    *)
(* closure it runs in, pc the await it is suspended at ("fetch": the fetch() promise,    *)
(* "text": the res.text() promise).  A finished flow keeps what the claims speak of:     *)
(* its outcome, the loop position it reached and, for a start flow, the response and     *)
(* body it decided on; its other locals are dead and are cleared.                        *)

NoRes == [status |-> 0, statusText |-> <<>>]
NoBody == [kind |-> "none"]

\* the responses of the server: a status code, then a body
ControllerStatusCodes == {200, 404}

StartBodies(status) ==
    IF status = 200
    THEN {MalformedBody, JsonBody(JObj([value |-> JStr(G2)]))}
    ELSE {EmptyBody, MalformedBody, JsonBody(JNull),
          JsonBody(JObj([value |-> JStr(toLowerCase(G1))])),
          JsonBody(JObj([value |-> JStr(G2)])),
          JsonBody(JObj([value |-> JNum(1)]))}

ReadBodies(status) ==
    IF status = 200
    THEN {MalformedBody,
          JsonBody(TaskDoc(JStr(T_ReloadA), JNull, JNull)),
          JsonBody(TaskDoc(JStr(T_ReloadA), LerRunning, JNull)),
          JsonBody(TaskDoc(JNull, LerSucceeded, JNull))}
    ELSE {MalformedBody, JsonBody(TaskDoc(JNull, LerSucceeded, JNull))}

\* mutant: the log element is looked up in the document when it is written, not
\* captured by the paint
SetLog_CurrentView(ps, g, msg) == [ps EXCEPT ![Len(ps)].log = msg]

SetLog(ps, g, msg) == [ps EXCEPT ![g].log = msg]
\* mutant: $status is the log element
SetStatus_IntoLog(ps, g, msg) == [ps EXCEPT ![g].log = msg]

SetStatus(ps, g, msg) == [ps EXCEPT ![g].status = msg]

\* a request on the network, with the flow that issued it and the path it was built from
Issued(f, method, vpx, path, key) ==
    [flow |-> f, path |-> path] @@ qrsFetch(vpx, path, [method |-> method], key)

\* the request of flow f is answered or fails: it leaves the network
Answered(f) == {r \in requests : r.flow # f}

NewFlow(kind, g, ids) ==
    [kind |-> kind, gen |-> g, pc |-> "fetch", ids |-> ids, idx |-> 0, parts |-> <<>>,
     res |-> NoRes, txt |-> NoBody, outcome |-> "none"]

\* mutant: an in-flight guard, a click while a start flow is in progress is ignored
StartClicked_Guarded(limit) ==
    /\ HasView
    /\ clicks < limit
    /\ clicks' = clicks + 1
    /\ IF View.mounted /\ \A h \in DOMAIN flows : flows[h].kind = "start" => flows[h].pc = "done"
       THEN LET g == Len(paints)
                f == Len(flows) + 1
            IN  /\ paints' = SetLog(paints, g, Starting)
                /\ \E key \in Tokens :
                      requests' = requests \cup
                          {Issued(f, "POST", View.vpx,
                                  T_startPath \o View.taskId1 \o T_startSuffix, key)}
                /\ flows' = Append(flows, NewFlow("start", g, <<>>))
       ELSE UNCHANGED <<paints, flows, requests>>
    /\ UNCHANGED <<npc, nin, nout, nblock>>

\* start onclick, up to the first await; limit bounds the clicks of a run
StartClicked(limit) ==
    /\ HasView
    /\ clicks < limit
    /\ clicks' = clicks + 1
    /\ IF View.mounted
       THEN LET g == Len(paints)
                f == Len(flows) + 1
            IN  /\ paints' = SetLog(paints, g, Starting)
                /\ \E key \in Tokens :
                      requests' = requests \cup
                          {Issued(f, "POST", View.vpx,
                                  T_startPath \o View.taskId1 \o T_startSuffix, key)}
                /\ flows' = Append(flows, NewFlow("start", g, <<>>))
       ELSE UNCHANGED <<paints, flows, requests>>
    /\ UNCHANGED <<npc, nin, nout, nblock>>

ClickStart == StartClicked(MaxClicks)

\* mutant: the echoed id is compared without toLowerCase
StartOk_CaseSensitive(res, txt, taskId1) ==
    LET j == ParseBody(txt).value IN
    \/ ResOk(res)
    \/ /\ Truthy(j)
       /\ Get(j, "value").t = "str"
       /\ Get(j, "value").s = taskId1

\* ok after lines 170-174
StartOk(res, txt, taskId1) ==
    LET j == ParseBody(txt).value IN
    \/ ResOk(res)
    \/ /\ Truthy(j)
       /\ Get(j, "value").t = "str"
       /\ toLowerCase(Get(j, "value").s) = toLowerCase(taskId1)

\* the fetch() promise of a start flow resolves
StartResponse(f) ==
    /\ flows[f].kind = "start" /\ flows[f].pc = "fetch"
    /\ \E status \in ControllerStatusCodes :
          flows' = [flows EXCEPT ![f].pc = "text", ![f].res = Response(status)]
    /\ requests' = Answered(f)
    /\ UNCHANGED <<paints, clicks, npc, nin, nout, nblock>>

\* res.text() of a start flow resolves: lines 170-176
StartBody(f) ==
    /\ flows[f].kind = "start" /\ flows[f].pc = "text"
    /\ \E txt \in StartBodies(flows[f].res.status) :
          LET fl == flows[f]
              ok == StartOk(fl.res, txt, paints[fl.gen].taskId1)
          IN  /\ paints' = SetLog(paints, fl.gen, IF ok THEN Success ELSE Failed(fl.res, txt))
              /\ flows' = [flows EXCEPT ![f].pc = "done", ![f].txt = txt,
                                        ![f].outcome = IF ok THEN "Succeeded" ELSE "Failed"]
    /\ UNCHANGED <<requests, clicks, npc, nin, nout, nblock>>

\* fetch() or res.text() of a start flow rejects: the catch of line 177
StartNetworkError(f) ==
    /\ flows[f].kind = "start" /\ flows[f].pc \in {"fetch", "text"}
    /\ \E m \in NetMessages : paints' = SetLog(paints, flows[f].gen, NetworkError(m))
    /\ flows' = [flows EXCEPT ![f].pc = "done", ![f].outcome = "NetworkError"]
    /\ requests' = Answered(f)
    /\ UNCHANGED <<clicks, npc, nin, nout, nblock>>

\* mutant: an invalid id ends the loop (break for continue)
SkipInvalid_Break(ids, i, parts) ==
    IF i > Len(ids) THEN [idx |-> i, parts |-> parts]
    ELSE IF ~IsValidId(ids[i])
         THEN [idx |-> Len(ids) + 1, parts |-> Append(parts, InvalidBlock(ids[i]))]
    ELSE [idx |-> i, parts |-> parts]

\* the for loop of lines 188-192 from position i on, as far as it runs without awaiting:
\* invalid ids push their warning and continue; it stops at the first id that needs a
\* request (idx <= Len(ids)) or past the end
RECURSIVE SkipInvalid(_, _, _)
SkipInvalid(ids, i, parts) ==
    IF i > Len(ids) THEN [idx |-> i, parts |-> parts]
    ELSE IF ~IsValidId(ids[i]) THEN SkipInvalid(ids, i + 1, Append(parts, InvalidBlock(ids[i])))
    ELSE [idx |-> i, parts |-> parts]

\* mutant: the requests for all the remaining valid ids are issued together, not one
\* per loop round
CheckRun_AllAtOnce(f, fl, i, parts, ps, fs) ==
    LET at == SkipInvalid(fl.ids, i, parts)
        put(rec) == IF f \in DOMAIN fs THEN [fs EXCEPT ![f] = rec] ELSE Append(fs, rec)
    IN  IF at.idx > Len(fl.ids)
        THEN /\ paints' = SetStatus(ps, fl.gen, Report(at.parts))
             /\ flows' = put([fl EXCEPT !.pc = "done", !.outcome = "Rendered", !.idx = at.idx,
                                        !.parts = <<>>, !.res = NoRes])
             /\ UNCHANGED requests
        ELSE /\ paints' = ps
             /\ flows' = put([fl EXCEPT !.pc = "fetch", !.idx = at.idx, !.parts = at.parts,
                                        !.res = NoRes])
             /\ \E key \in Tokens :
                   requests' = requests \cup
                       {Issued(f, "GET", ps[fl.gen].vpx, T_readPath \o fl.ids[j], key) :
                            j \in {k \in at.idx..Len(fl.ids) : IsValidId(fl.ids[k])}}

\* flow number f, with locals fl, runs on from loop position i with the blocks collected
\* so far, until it awaits the next fetch() or writes the report (line 213); ps is the
\* view as the handler has left it so far, fs the other flows
CheckRun(f, fl, i, parts, ps, fs) ==
    LET at == SkipInvalid(fl.ids, i, parts)
        put(rec) == IF f \in DOMAIN fs THEN [fs EXCEPT ![f] = rec] ELSE Append(fs, rec)
    IN  IF at.idx > Len(fl.ids)
        THEN /\ paints' = SetStatus(ps, fl.gen, Report(at.parts))
             /\ flows' = put([fl EXCEPT !.pc = "done", !.outcome = "Rendered", !.idx = at.idx,
                                        !.parts = <<>>, !.res = NoRes])
             /\ UNCHANGED requests
        ELSE /\ paints' = ps
             /\ flows' = put([fl EXCEPT !.pc = "fetch", !.idx = at.idx, !.parts = at.parts,
                                        !.res = NoRes])
             /\ \E key \in Tokens :
                   requests' = requests \cup
                       {Issued(f, "GET", ps[fl.gen].vpx, T_readPath \o fl.ids[at.idx], key)}

\* check onclick, up to the first await (or to the end, when no id needs a request)
CheckClicked(limit) ==
    /\ HasView
    /\ clicks < limit
    /\ clicks' = clicks + 1
    /\ IF View.mounted
       THEN LET g == Len(paints)
                ids == <<View.taskId1>> \o (IF View.taskId2 # <<>> THEN <<View.taskId2>> ELSE <<>>)
            IN  CheckRun(Len(flows) + 1, NewFlow("check", g, ids), 1, <<>>,
                         SetStatus(paints, g, Fetching), flows)
       ELSE UNCHANGED <<paints, flows, requests>>
    /\ UNCHANGED <<npc, nin, nout, nblock>>

ClickCheck == CheckClicked(MaxClicks)

\* the fetch() promise of fetchTaskLastResult resolves (line 57)
CheckResponse(f) ==
    /\ flows[f].kind = "check" /\ flows[f].pc = "fetch"
    /\ \E status \in ControllerStatusCodes :
          flows' = [flows EXCEPT ![f].pc = "text", ![f].res = Response(status)]
    /\ requests' = Answered(f)
    /\ UNCHANGED <<paints, clicks, npc, nin, nout, nblock>>

\* mutant: the catch of line 65 is missing and the failure of JSON.parse escapes the
\* handler: a flow that reads a malformed body stops where it is
CheckBody_Uncaught(f) ==
    /\ flows[f].kind = "check" /\ flows[f].pc = "text"
    /\ \E txt \in ReadBodies(flows[f].res.status), now \in Nows :
          LET fl == flows[f]
              tId == fl.ids[fl.idx]
              r == fetchTaskLastResult(fl.res, txt, tId, now)
          IN  IF ParseBody(txt).threw
              THEN /\ flows' = [flows EXCEPT ![f].pc = "thrown"]
                   /\ UNCHANGED <<paints, requests>>
              ELSE CheckRun(f, fl, fl.idx + 1, Append(fl.parts, BlockOf(r, tId)), paints, flows)
    /\ UNCHANGED <<clicks, npc, nin, nout, nblock>>

\* res.text() resolves (line 58): the rest of fetchTaskLastResult, the block of lines
\* 196-211, and the loop onwards
CheckBody(f) ==
    /\ flows[f].kind = "check" /\ flows[f].pc = "text"
    /\ \E txt \in ReadBodies(flows[f].res.status), now \in Nows :
          LET fl == flows[f]
              tId == fl.ids[fl.idx]
              r == fetchTaskLastResult(fl.res, txt, tId, now)
          IN  CheckRun(f, fl, fl.idx + 1, Append(fl.parts, BlockOf(r, tId)), paints, flows)
    /\ UNCHANGED <<clicks, npc, nin, nout, nblock>>

\* mutant: the catch reports the blocks collected so far
CheckNetworkError_KeepsParts(f) ==
    /\ flows[f].kind = "check" /\ flows[f].pc \in {"fetch", "text"}
    /\ paints' = SetStatus(paints, flows[f].gen, Report(flows[f].parts))
    /\ flows' = [flows EXCEPT ![f].pc = "done", ![f].outcome = "NetworkError",
                              ![f].parts = <<>>, ![f].res = NoRes]
    /\ requests' = Answered(f)
    /\ UNCHANGED <<clicks, npc, nin, nout, nblock>>

\* fetch() or res.text() rejects inside fetchTaskLastResult: the catch of line 214
CheckNetworkError(f) ==
    /\ flows[f].kind = "check" /\ flows[f].pc \in {"fetch", "text"}
    /\ \E m \in NetMessages : paints' = SetStatus(paints, flows[f].gen, NetworkError(m))
    /\ flows' = [flows EXCEPT ![f].pc = "done", ![f].outcome = "NetworkError",
                              ![f].parts = <<>>, ![f].res = NoRes]
    /\ requests' = Answered(f)
    /\ UNCHANGED <<clicks, npc, nin, nout, nblock>>

Init ==
    /\ paints = <<>> /\ flows = <<>> /\ requests = {} /\ clicks = 0
    /\ npc = "off"
    /\ nin = [res |-> Response(200), txt |-> EmptyBody, taskId |-> G1, now |-> 0]
    /\ nout = [pending |-> TRUE]
    /\ nblock = [pending |-> TRUE]

Next ==
    \/ Paint
    \/ ClickStart
    \/ ClickCheck
    \/ \E f \in DOMAIN flows : StartResponse(f)
    \/ \E f \in DOMAIN flows : StartBody(f)
    \/ \E f \in DOMAIN flows : StartNetworkError(f)
    \/ \E f \in DOMAIN flows : CheckResponse(f)
    \/ \E f \in DOMAIN flows : CheckBody(f)
    \/ \E f \in DOMAIN flows : CheckNetworkError(f)

Spec == Init /\ [][Next]_vars

-----------------------------------------------------------------------------
(* Overlapping flows: one painted view with a valid primary id, and room for more     *)
(* clicks than Spec has, so that flows started from the same view overlap             *)

OverlapClicks == 2

OverlapLayouts == {Props(JStr(G1), JNull, JNull)}

OverlapInit ==
    /\ \E props \in OverlapLayouts : paints = <<NewPaint(props)>>
    /\ flows = <<>> /\ requests = {} /\ clicks = 0
    /\ npc = "off"
    /\ nin = [res |-> Response(200), txt |-> EmptyBody, taskId |-> G1, now |-> 0]
    /\ nout = [pending |-> TRUE]
    /\ nblock = [pending |-> TRUE]

OverlapStart == StartClicked(OverlapClicks)
OverlapCheck == CheckClicked(OverlapClicks)

OverlapNext ==
    \/ OverlapStart
    \/ OverlapCheck
    \/ \E f \in DOMAIN flows : StartResponse(f)
    \/ \E f \in DOMAIN flows : StartBody(f)
    \/ \E f \in DOMAIN flows : StartNetworkError(f)
    \/ \E f \in DOMAIN flows : CheckResponse(f)
    \/ \E f \in DOMAIN flows : CheckBody(f)
    \/ \E f \in DOMAIN flows : CheckNetworkError(f)

SpecOverlap == OverlapInit /\ [][OverlapNext]_vars

\* a promise flow f awaits settles: its continuation, or its catch, runs
Settles(f) ==
    /\ f \in DOMAIN flows
    /\ \/ StartResponse(f) \/ StartBody(f) \/ StartNetworkError(f)
       \/ CheckResponse(f) \/ CheckBody(f) \/ CheckNetworkError(f)

\* every fetch() and every res.text() eventually resolves or rejects, and the event loop
\* then runs the handler on from its await
FairOverlap == SpecOverlap /\ \A f \in 1..OverlapClicks : WF_vars(Settles(f))

-----------------------------------------------------------------------------
(* Repaints: the host paints again, with the same or another configuration, while     *)
(* flows of an earlier paint may be in flight                                         *)

RepaintPaints == 2
RepaintClicks == 1

\* two configurations that differ in the primary id and in the prefix
RepaintLayouts ==
    {Props(JStr(G1), JNull, JNull), Props(JStr(G2), JNull, JStr(T_jwt))}

Repaint == Painted(RepaintPaints, RepaintLayouts)
RepaintStart == StartClicked(RepaintClicks)
RepaintCheck == CheckClicked(RepaintClicks)

RepaintNext ==
    \/ Repaint
    \/ RepaintStart
    \/ RepaintCheck
    \/ \E f \in DOMAIN flows : StartResponse(f)
    \/ \E f \in DOMAIN flows : StartBody(f)
    \/ \E f \in DOMAIN flows : StartNetworkError(f)
    \/ \E f \in DOMAIN flows : CheckResponse(f)
    \/ \E f \in DOMAIN flows : CheckBody(f)
    \/ \E f \in DOMAIN flows : CheckNetworkError(f)

SpecRepaint == Init /\ [][RepaintNext]_vars

-----------------------------------------------------------------------------
(* The normalizer on its own: every input of NormInputs, then its result *)

NormInit ==
    /\ paints = <<>> /\ flows = <<>> /\ requests = {} /\ clicks = 0
    /\ npc = "call"
    /\ nin \in NormInputs
    /\ nout = [pending |-> TRUE]
    /\ nblock = [pending |-> TRUE]

\* lines 60-84 on the input
NormReturn ==
    /\ npc = "call"
    /\ nout' = fetchTaskLastResult(nin.res, nin.txt, nin.taskId, nin.now)
    /\ npc' = "returned"
    /\ UNCHANGED <<paints, flows, requests, clicks, nin, nblock>>

\* lines 196-211 on the returned value
NormRender ==
    /\ npc = "returned"
    /\ nblock' = BlockOf(nout, nin.taskId)
    /\ npc' = "rendered"
    /\ UNCHANGED <<paints, flows, requests, clicks, nin, nout>>

NormNext == NormReturn \/ NormRender

SpecNorm == NormInit /\ [][NormNext]_vars

\* the last-execution record the normalizer was given (when it got that far)
ninLer ==
    LET t == ParseBody(nin.txt).value IN
    Or(Or(Get(Get(t, "operational"), "lastExecutionResult"),
          Get(Get(t, "operational"), "lastExecution")), JNull)

-----------------------------------------------------------------------------
(* qrsFetch on its own: nin holds the arguments and the value makeXrf returns, nout the *)
(* arguments fetch() is then called with                                                *)

T_textplain == <<"t","e","x","t","/","p","l","a","i","n">>

FetchPaths ==
    {T_startPath \o G1 \o T_startSuffix,
     T_readPath \o G1,
     T_readPath \o G1 \o <<"?","f","i","l","t","e","r","=","1">>}

\* opts: undefined (no properties), a method only, or a method with headers of the caller
FetchOpts ==
    {<<>>,
     [method |-> "GET"],
     [method |-> "POST"],
     [method |-> "POST", headers |-> [ContentType |-> T_appjson]],
     [method |-> "GET", headers |-> [Accept |-> T_textplain]],
     [method |-> "GET", headers |-> [XQlikXrfkey |-> Rep("0", TokenLen)]]}

FetchInit ==
    /\ paints = <<>> /\ flows = <<>> /\ requests = {} /\ clicks = 0
    /\ npc = "fetch-call"
    /\ nin \in [vpx : {JNull, JStr(<<>>), JStr(T_jwt)}, path : FetchPaths,
                opts : FetchOpts, key : Tokens]
    /\ nout = [pending |-> TRUE]
    /\ nblock = [pending |-> TRUE]

\* lines 41-53
FetchCall ==
    /\ npc = "fetch-call"
    /\ nout' = qrsFetch(nin.vpx, nin.path, nin.opts, nin.key)
    /\ npc' = "fetch-issued"
    /\ UNCHANGED <<paints, flows, requests, clicks, nin, nblock>>

FetchNext == FetchCall

SpecFetch == FetchInit /\ [][FetchNext]_vars

-----------------------------------------------------------------------------
(* The two formatters on their own: fmtDate on one value, fmtMs on two (so that the   *)
(* results for a smaller and a larger duration can be compared)                       *)

\* absent, empty and unparseable values, numbers, and timestamps over three days
DateInputs ==
    {JNull, JStr(<<>>), JStr(T_garbage), JStr(T_Done), JNum(0), JNum(90061000)}
    \cup {Iso(k * 3607) : k \in 0..59}

\* null, and milliseconds around zero, the half second, the minute, the hour and the day
MsInputs ==
    {JNull} \cup
    {Num(ms) : ms \in {0 - 86400000, 0 - 1500, 0 - 501, 0 - 1, 0, 1, 499, 500, 501, 999,
                       1000, 1499, 1500, 59499, 59500, 60000, 3599499, 3599500, 3600000,
                       86399499, 86399500, 90061000}}

FmtInit ==
    /\ paints = <<>> /\ flows = <<>> /\ requests = {} /\ clicks = 0
    /\ \/ npc = "fmtDate-call" /\ nin \in [value : DateInputs]
       \/ npc = "fmtMs-call" /\ nin \in [a : MsInputs, b : MsInputs]
    /\ nout = [pending |-> TRUE]
    /\ nblock = [pending |-> TRUE]

\* lines 8-19
FmtDateReturn ==
    /\ npc = "fmtDate-call"
    /\ nout' = fmtDate(nin.value)
    /\ npc' = "fmtDate-returned"
    /\ UNCHANGED <<paints, flows, requests, clicks, nin, nblock>>

\* lines 23-26, once for each of the two durations
FmtMsReturn ==
    /\ npc = "fmtMs-call"
    /\ nout' = [a |-> fmtMs(nin.a), b |-> fmtMs(nin.b)]
    /\ npc' = "fmtMs-returned"
    /\ UNCHANGED <<paints, flows, requests, clicks, nin, nblock>>

FmtNext == FmtDateReturn \/ FmtMsReturn

SpecFmt == FmtInit /\ [][FmtNext]_vars

-----------------------------------------------------------------------------
(* Claims about the flows (Spec) *)

\* 36 characters, each a hexadecimal digit or a hyphen
HexAndHyphen ==
    Range(DigitChars) \cup {"a", "b", "c", "d", "e", "f", "A", "B", "C", "D", "E", "F", "-"}
MatchesGuidPattern(id) == Len(id) = 36 /\ Range(id) \subseteq HexAndHyphen

IsInvalidWarning(block, id) == block.kind = "invalid" /\ block.name = id

\* flow f finishes in this step
Finishing(f) ==
    /\ f \in DOMAIN flows' /\ flows'[f].pc = "done"
    /\ (f \in DOMAIN flows => flows[f].pc # "done")

\* the ids a check flow of paint g works on: the primary id, then the second if configured
ConfiguredIds(p) == <<p.taskId1>> \o (IF p.taskId2 # <<>> THEN <<p.taskId2>> ELSE <<>>)

C1_Step ==
    \A f \in DOMAIN flows' :
        LET fl == flows'[f] IN
        fl.kind = "check" =>
            /\ \A i \in DOMAIN fl.ids :
                  ~MatchesGuidPattern(fl.ids[i]) =>
                      /\ \A r \in requests' : r.flow = f => r.path # T_readPath \o fl.ids[i]
                      /\ (fl.pc # "done" => i # fl.idx)
                      /\ (fl.pc # "done" /\ i < fl.idx
                          => IsInvalidWarning(fl.parts[i], fl.ids[i]))
                      /\ (Finishing(f) /\ fl.outcome = "Rendered"
                          => /\ paints'[fl.gen].status.kind = "report"
                             /\ IsInvalidWarning(paints'[fl.gen].status.parts[i], fl.ids[i]))
            /\ (fl.pc = "fetch" =>
                  \E r \in requests' : r.flow = f /\ r.path = T_readPath \o fl.ids[fl.idx])

\* C1: in the check flow, every id of the list that does not match the 36-character
\* hex-and-hyphen pattern gets its invalid-id warning (in the blocks collected so far and
\* in the report written), and no request is ever issued for it.
C1_InvalidIdWarnedNotFetched == [][C1_Step]_vars

\* the first id is invalid and has its warning, the request for the second is out
C1_Witness ==
    \E f \in DOMAIN flows :
        /\ flows[f].kind = "check" /\ flows[f].pc = "fetch"
        /\ flows[f].ids = <<T_notaguid, G2>> /\ flows[f].idx = 2
        /\ IsInvalidWarning(flows[f].parts[1], T_notaguid)
        /\ \A r \in requests : r.path = T_readPath \o G2

C2_Step ==
    \A f \in DOMAIN flows' :
        LET fl == flows'[f]
            ids == ConfiguredIds(paints'[fl.gen])
            rep == paints'[fl.gen].status
        IN  fl.kind = "check" =>
                /\ fl.ids = ids
                /\ (Finishing(f) => fl.outcome \in {"Rendered", "NetworkError"})
                /\ (Finishing(f) /\ fl.outcome = "Rendered" =>
                      /\ rep.kind = "report"
                      /\ Len(rep.parts) = Len(ids)
                      /\ \A i \in DOMAIN ids :
                            /\ rep.parts[i].forId = ids[i]
                            /\ rep.parts[i].kind \in
                                  {"invalid", "read-error", "no-execution", "status"})

\* C2: a check flow that finishes without a network-layer failure writes a report with
\* exactly one block per id of the list (the primary id, then the second if configured),
\* in that order, whatever the outcome of each id.
C2_OneBlockPerIdInOrder == [][C2_Step]_vars

\* a read error for the first id, a populated block for the second
C2_Witness ==
    /\ HasView
    /\ View.status.kind = "report"
    /\ Len(View.status.parts) = 2
    /\ View.status.parts[1].kind = "read-error" /\ View.status.parts[1].forId = G1
    /\ View.status.parts[2].kind = "status" /\ View.status.parts[2].forId = G2

C3_Step ==
    \A f \in DOMAIN flows' :
        flows'[f].kind = "check" =>
            /\ (Finishing(f) /\ flows'[f].outcome = "NetworkError" =>
                  /\ requests' \subseteq requests
                  /\ paints'[flows'[f].gen].status \in {NetworkError(m) : m \in NetMessages})
            /\ (flows'[f].pc = "done" => \A r \in requests' : r.flow # f)
            /\ (f \in DOMAIN flows /\ flows[f].pc = "done" => flows'[f] = flows[f])

\* C3: when a network-layer failure is thrown in a check flow, the flow issues no further
\* request, now or later, and its status region holds the one network-error message and
\* none of the blocks collected.
C3_NetworkErrorAborts == [][C3_Step]_vars

\* the failure came on the first of two valid ids: no request for the second
C3_Witness ==
    \E f \in DOMAIN flows :
        /\ flows[f].kind = "check" /\ flows[f].outcome = "NetworkError"
        /\ flows[f].ids = <<G1, G2>> /\ flows[f].idx = 1
        /\ paints[flows[f].gen].status.kind = "network-error"
        /\ requests = {}

\* the body is JSON with a string `value` equal to the id, case-insensitively
EchoesId(txt, id) ==
    /\ txt.kind = "json" /\ txt.doc.t = "obj" /\ "value" \in DOMAIN txt.doc.f
    /\ txt.doc.f.value.t = "str"
    /\ toLowerCase(txt.doc.f.value.s) = toLowerCase(id)

C4_Step ==
    \A f \in DOMAIN flows' :
        LET fl == flows'[f]
            shown == paints'[fl.gen].log
            id == paints'[fl.gen].taskId1
            got == fl.txt # NoBody
            success == fl.res.status \in 200..299 \/ EchoesId(fl.txt, id)
        IN  fl.kind = "start" /\ Finishing(f) =>
                /\ fl.outcome \in {"Succeeded", "Failed", "NetworkError"}
                /\ (fl.outcome = "Succeeded" <=> got /\ success)
                /\ (fl.outcome = "Failed" <=> got /\ ~success)
                /\ (fl.outcome = "NetworkError" <=> ~got)
                /\ (fl.outcome = "Succeeded" => shown = Success)
                /\ (fl.outcome = "Failed" =>
                      shown = [kind |-> "failed", status |-> fl.res.status,
                               statusText |-> fl.res.statusText, body |-> fl.txt])
                /\ (fl.outcome = "NetworkError" => shown.kind = "network-error")

\* C4: the start flow ends in exactly one of Succeeded, Failed, NetworkError: Succeeded
\* iff a body was read and the response is 2xx or its body echoes the primary id in any
\* case; Failed, showing status, status text and raw body, for every other response;
\* NetworkError iff the request or the body read threw.
C4_StartOutcome == [][C4_Step]_vars

\* a 404 whose body echoes the id in another case counts as started
C4_Witness ==
    \E f \in DOMAIN flows :
        /\ flows[f].kind = "start" /\ flows[f].outcome = "Succeeded"
        /\ flows[f].res.status = 404
        /\ flows[f].txt = JsonBody(JObj([value |-> JStr(toLowerCase(G1))]))
        /\ paints[flows[f].gen].taskId1 # toLowerCase(G1)
        /\ paints[flows[f].gen].log = Success

C5_Step ==
    /\ (HasView' /\ View'.taskId1 = <<>> =>
          /\ View'.log = ConfigWarning /\ View'.status = Blank
          /\ ~View'.mounted)
    /\ (HasView /\ View.taskId1 = <<>> /\ clicks' # clicks =>
          /\ requests' = requests /\ flows' = flows /\ paints' = paints)

InFlight(reqs, f) == {r \in reqs : r.flow = f}

C14_Step ==
    \A f \in DOMAIN flows' :
        LET fl == flows'[f] IN
        fl.kind = "check" =>
            /\ Cardinality(InFlight(requests', f)) <= 1
            /\ (fl.pc # "fetch" => InFlight(requests', f) = {})
            /\ (/\ Len(fl.ids) = 2
                /\ MatchesGuidPattern(fl.ids[1]) /\ MatchesGuidPattern(fl.ids[2])
                /\ \E r \in requests' \ requests :
                      r.flow = f /\ r.path = T_readPath \o fl.ids[2]
                => /\ f \in DOMAIN flows
                   /\ flows[f].pc = "text" /\ flows[f].idx = 1
                   /\ flows[f].res # NoRes
                   /\ InFlight(requests, f) = {}
                   /\ Len(fl.parts) = 1 /\ fl.parts[1].forId = fl.ids[1])

\* C14: a check flow never has more than one request in flight; with two valid ids, the
\* request for the second id is issued only in the step in which the body of the first
\* response has been read (the first response received, its request off the network, its
\* block collected).
C14_SequentialReads == [][C14_Step]_vars

\* the second request is out, the first id has its block
C14_Witness ==
    \E f \in DOMAIN flows :
        /\ flows[f].kind = "check" /\ flows[f].pc = "fetch"
        /\ flows[f].ids = <<G1, G2>> /\ flows[f].idx = 2
        /\ Len(flows[f].parts) = 1
        /\ \E r \in requests : r.flow = f /\ r.path = T_readPath \o G2

\* a flow of the given kind takes a step: it is launched, or its record changes
Acts(kind) ==
    \E f \in DOMAIN flows' :
        /\ flows'[f].kind = kind
        /\ (f \in DOMAIN flows => flows'[f] # flows[f])

C15_Step ==
    /\ (Acts("start") => \A g \in DOMAIN paints : paints'[g].status = paints[g].status)
    /\ (Acts("check") => \A g \in DOMAIN paints : paints'[g].log = paints[g].log)

\* C15: under any interleaving of start and check flows, every step of a start flow
\* leaves the status region as it was and every step of a check flow (a failing read
\* included) leaves the log region as it was.
C15_DisjointRegions == [][C15_Step]_vars

\* a check flow ran to a 404 read-error report while a start flow is still waiting for
\* its body: the log still shows what the start flow wrote
C15_Witness ==
    /\ Len(flows) = 2
    /\ flows[1].kind = "start" /\ flows[1].pc = "text"
    /\ flows[2].kind = "check" /\ flows[2].pc = "done"
    /\ View.log = Starting
    /\ View.status.kind = "report"
    /\ View.status.parts[1].kind = "read-error"
    /\ View.status.parts[1].error.status = 404

\* what a finished start flow has to show
StartShown(fl) ==
    CASE fl.outcome = "Succeeded" -> {Success}
      [] fl.outcome = "Failed" -> {Failed(fl.res, fl.txt)}
      [] OTHER -> {NetworkError(m) : m \in NetMessages}

\* what a finished check flow has to show: its report, a block per id, or the error
CheckShown(fl, shown) ==
    IF fl.outcome = "Rendered"
    THEN /\ shown.kind = "report" /\ Len(shown.parts) = Len(fl.ids)
         /\ \A i \in DOMAIN fl.ids : shown.parts[i].forId = fl.ids[i]
    ELSE shown \in {NetworkError(m) : m \in NetMessages}

C16_Step ==
    /\ (clicks' = clicks + 1 /\ View.mounted =>
          /\ Len(flows') = Len(flows) + 1
          /\ \A f \in DOMAIN flows : flows'[f] = flows[f]
          /\ requests \subseteq requests')
    /\ \A f \in DOMAIN flows' :
          Finishing(f) =>
              IF flows'[f].kind = "start"
              THEN paints'[flows'[f].gen].log \in StartShown(flows'[f])
              ELSE CheckShown(flows'[f], paints'[flows'[f].gen].status)
    /\ (View'.log # View.log =>
          clicks' # clicks \/ \E f \in DOMAIN flows' : flows'[f].kind = "start" /\ Finishing(f))
    /\ (View'.status # View.status =>
          clicks' # clicks \/ \E f \in DOMAIN flows' : flows'[f].kind = "check" /\ Finishing(f))

\* C16: a click on a mounted button always launches a new flow, whatever flows are in
\* progress, and aborts none of them; a flow that finishes writes its own result over the
\* region, and between clicks nothing else changes the region: the region shows the
\* result of the flow that finished last.
C16_LastToFinishWins == [][C16_Step]_vars

\* two start flows, both finished; the second one started succeeded, and the log shows
\* the failure of the first, which finished after it
C16_Witness ==
    /\ Len(flows) = 2
    /\ flows[1].kind = "start" /\ flows[1].outcome = "Failed"
    /\ flows[2].kind = "start" /\ flows[2].outcome = "Succeeded"
    /\ View.log = Failed(flows[1].res, flows[1].txt)

AllDone == \A f \in DOMAIN flows : flows[f].pc = "done"

\* flow f has ended in one of the outcomes of its kind
Terminated(f) ==
    /\ f \in DOMAIN flows /\ flows[f].pc = "done"
    /\ flows[f].kind = "start" => flows[f].outcome \in {"Succeeded", "Failed", "NetworkError"}
    /\ flows[f].kind = "check" => flows[f].outcome \in {"Rendered", "NetworkError"}

\* C17: when every request and body read eventually returns or fails, then from any
\* moment at which flows have been launched a moment follows at which every one of them
\* has terminated in one of its outcomes, whatever the bodies hold, and the regions hold
\* a result and no "starting" or "fetching" placeholder; and whenever no flow is in
\* progress a next click on either button is possible.
C17_FlowsTerminate ==
    /\ (flows # <<>>) ~> (/\ \A f \in DOMAIN flows : Terminated(f)
                          /\ View.log # Starting /\ View.status # Fetching)
    /\ [](AllDone /\ clicks < OverlapClicks => ENABLED OverlapStart /\ ENABLED OverlapCheck)

\* a check flow ended with its report, and a click after that has launched a new check
\* flow, whose placeholder is showing
C17_Witness ==
    /\ Len(flows) = 2
    /\ flows[1].kind = "check" /\ flows[1].outcome = "Rendered"
    /\ flows[2].kind = "check" /\ flows[2].pc = "fetch"
    /\ View.status = Fetching

\* the configuration a paint captured
Captured(p) == <<p.taskId1, p.taskId2, p.vpx>>

\* flow f is launched or moves on in this step
Moves(f) == f \notin DOMAIN flows \/ flows'[f] # flows[f]

C21_Step ==
    /\ \A g \in DOMAIN paints : Captured(paints'[g]) = Captured(paints[g])
    /\ (Len(paints') # Len(paints) =>
          /\ View'.status = Blank
          /\ View'.log = IF View'.taskId1 = <<>> THEN ConfigWarning ELSE Blank
          /\ View'.mounted = (View'.taskId1 # <<>>)
          /\ \A g \in DOMAIN paints : paints'[g] = paints[g]
          /\ flows' = flows /\ requests' = requests)
    /\ \A f \in DOMAIN flows' :
          LET fl == flows'[f]
              own == paints'[fl.gen]
          IN  /\ IF f \in DOMAIN flows
                 THEN fl.gen = flows[f].gen /\ fl.ids = flows[f].ids
                 ELSE fl.gen = Len(paints)
              /\ (fl.kind = "check" => fl.ids = ConfiguredIds(own))
              /\ \A r \in requests' \ requests :
                    r.flow = f =>
                        /\ r.path = IF fl.kind = "start"
                                    THEN T_startPath \o own.taskId1 \o T_startSuffix
                                    ELSE T_readPath \o ConfiguredIds(own)[fl.idx]
                        /\ SubSeq(r.url, 1, Len(ToText(own.vpx)) + Len(r.path))
                               = ToText(own.vpx) \o r.path
    /\ \A g \in DOMAIN paints :
          paints'[g] # paints[g] => \E f \in DOMAIN flows' : flows'[f].gen = g /\ Moves(f)
    /\ (HasView' /\ (\A f \in DOMAIN flows' : flows'[f].gen # Len(paints')) =>
          View'.status = Blank /\ View'.log \in {Blank, ConfigWarning})

\* C21: a paint adds a view with an empty status region and an empty log region (the
\* configuration warning when it has no primary id), mounts handlers only when it has a
\* primary id, and touches neither the earlier views nor the flows in flight; a flow
\* belongs for good to the paint on whose button it was launched, builds every request
\* from that paint's ids and prefix, and writes only to that paint's regions; so the
\* regions of the current view are changed only by flows launched from it, and are still
\* as painted while there is none.
C21_FlowsKeepTheirPaint == [][C21_Step]_vars

\* the host has repainted with another id and prefix while the flow launched from the
\* first paint awaits its body: the first paint's region holds the flow's placeholder,
\* the regions of the current view are empty
C21_Witness ==
    /\ Len(paints) = 2 /\ Len(flows) = 1
    /\ flows[1].gen = 1 /\ flows[1].pc = "text"
    /\ paints[1].taskId1 = G1 /\ View.taskId1 = G2 /\ View.vpx = JStr(T_jwt)
    /\ paints[1].log = Starting \/ paints[1].status = Fetching
    /\ View.log = Blank /\ View.status = Blank

HasLine(block, label) == \E i \in DOMAIN block.lines : block.lines[i].label = label

\* C6: a rendered status block has neither a completion-time line nor a duration line when
\* the normalized result is running, and has both when it is not.
C6_RunningHidesCompletion ==
    npc = "rendered" /\ nblock.kind = "status" =>
        /\ (nout.running => ~HasLine(nblock, "Completed") /\ ~HasLine(nblock, "Duration"))
        /\ (~nout.running => HasLine(nblock, "Completed") /\ HasLine(nblock, "Duration"))

\* a running record that has a stop time: its block still ends at the start line
C6_Witness ==
    /\ npc = "rendered" /\ nblock.kind = "status"
    /\ nout.running /\ Truthy(nout.stop)
    /\ Len(nblock.lines) = 2

-----------------------------------------------------------------------------
(* Claims about the normalizer (SpecNorm) *)

\* what the claims call the record's fields: the first non-empty of the two names
recStart == Or(Get(ninLer, "executionStartTime"), Get(ninLer, "startTime"))
recStop == Or(Get(ninLer, "executionStopTime"), Get(ninLer, "stopTime"))
recCode == Get(ninLer, "status")
recText == Get(ninLer, "statusText")

Normalized == npc \in {"returned", "rendered"} /\ IsResult(nout)

\* C7: isRunning is true whenever the numeric status code is 2, true whenever a start
\* time is present and a stop time is absent, and false whenever a stop time is present,
\* the code is not 2 and the resolved status text does not contain "running" in any case.
C7_IsRunning ==
    Normalized =>
        /\ (recCode = JNum(2) => nout.running)
        /\ (Truthy(recStart) /\ ~Truthy(recStop) => nout.running)
        /\ (/\ Truthy(recStop)
            /\ recCode # JNum(2)
            /\ ~TestIgnoreCase(T_running, ToText(nout.statusText))
            => ~nout.running)

\* a finished record (stop present, text "Done") whose code is 2 is reported running
C7_Witness ==
    /\ Normalized
    /\ recCode = JNum(2) /\ Truthy(recStop) /\ recText = JStr(T_Done)
    /\ nout.running

\* the table of the claim
C8_Label(n) ==
    CASE n = 0 -> T_Unknown [] n = 1 -> T_Triggered [] n = 2 -> T_StartedRunning
      [] n = 3 -> T_Queued [] n = 6 -> T_Aborted [] n = 7 -> T_Succeeded
      [] n = 8 -> T_Failed [] n = 9 -> T_Skipped [] n = 10 -> T_Retrying
      [] OTHER -> T_StatusHash \o IntToStr(n)

\* C8: an explicit statusText is used as is; otherwise a numeric code of the table gives
\* its fixed label and any other integer code gives "Status #<code>"; with neither a code
\* nor a text the status text is "-".
C8_StatusText ==
    Normalized =>
        nout.statusText =
            IF Truthy(recText) THEN recText
            ELSE IF recCode.t = "num" THEN JStr(C8_Label(recCode.n))
            ELSE JStr(T_Hyphen)

\* an unmapped code without a text
C8_Witness ==
    /\ Normalized
    /\ ~Truthy(recText) /\ recCode = JNum(4)
    /\ nout.statusText = JStr(<<"S","t","a","t","u","s"," ","#","4">>)

\* C9: with start and stop present the duration is formatDuration(stop - start); with a
\* start and no stop the record is running and the duration is formatDuration(now -
\* start); with no start time the duration is the placeholder.
C9_Duration ==
    Normalized =>
        /\ (Truthy(recStart) /\ Truthy(recStop)
            => nout.duration = fmtMs(Sub(NewDate(recStop), NewDate(recStart))))
        /\ (Truthy(recStart) /\ ~Truthy(recStop)
            => nout.running /\ nout.duration = fmtMs(Sub(Num(nin.now), NewDate(recStart))))
        /\ (~Truthy(recStart) => nout.duration = Dash)

\* start 10:00:00, stop 10:05:30: "0h 5m 30s"
C9_Witness ==
    /\ Normalized
    /\ recStart = Iso(36000) /\ recStop = Iso(36330)
    /\ nout.duration = <<"0","h"," ","5","m"," ","3","0","s">>

Unparseable(v) == Truthy(v) /\ NewDate(v).nan

\* C10: when the start or stop value cannot be parsed as a date, the duration is the
\* placeholder, never a value computed from the unparseable date.
C10_UnparseableIsUnknown ==
    Normalized /\ (Unparseable(recStart) \/ Unparseable(recStop)) => nout.duration = Dash

Returned == npc \in {"returned", "rendered"}

\* C11: for every non-2xx response the normalizer returns an error result carrying the
\* task id as name, the status code, the status text and the body as received, whatever
\* the body holds (it is not parsed: neither its name nor its record shows), and the
\* block rendered from it is the read-error block.
C11_NonOkIsError ==
    Returned /\ nin.res.status \notin 200..299 =>
        /\ IsError(nout) /\ ~IsEmpty(nout) /\ ~IsResult(nout)
        /\ nout.name = JStr(nin.taskId)
        /\ nout.error.status = nin.res.status
        /\ nout.error.statusText = nin.res.statusText
        /\ nout.error.body = nin.txt
        /\ (npc = "rendered" =>
              /\ nblock.kind = "read-error"
              /\ nblock.name = nin.taskId
              /\ nblock.error = nout.error)

\* a 404 whose body is the JSON of a named task with a last-execution record
C11_Witness ==
    /\ npc = "rendered"
    /\ nin.res.status = 404
    /\ nin.txt = JsonBody(TaskDoc(JStr(T_ReloadA), LerRunning, LerSucceeded))
    /\ nblock.kind = "read-error" /\ nblock.name = G1
    /\ nblock.error.body = nin.txt

\* C12: for every 2xx response whose body is empty or is not valid JSON the normalizer
\* returns an empty result named with the task id, never an error result; the block
\* rendered from it is the no-execution block, not an error of any kind.
C12_BadBodyIsEmpty ==
    Returned /\ nin.res.status \in 200..299 /\ nin.txt.kind \in {"empty", "malformed"} =>
        /\ IsEmpty(nout) /\ ~IsError(nout) /\ ~IsResult(nout)
        /\ nout.name = JStr(nin.taskId)
        /\ (npc = "rendered" => nblock.kind = "no-execution" /\ nblock.name = nin.taskId)

\* a 200 whose body JSON.parse rejects
C12_Witness ==
    /\ npc = "rendered"
    /\ nin.res.status = 200 /\ nin.txt = MalformedBody
    /\ nblock.kind = "no-execution" /\ nblock.name = G1

\* the first of the two fields of rec that holds a value, null when neither does
Prefer(rec, first, second) ==
    IF Truthy(Get(rec, first)) THEN Get(rec, first)
    ELSE IF Truthy(Get(rec, second)) THEN Get(rec, second)
    ELSE JNull

\* C18: in a 2xx response with a JSON record, the last-execution sub-record is
\* operational.lastExecutionResult when it exists, operational.lastExecution otherwise;
\* the result's start is its executionStartTime, else its startTime, and its stop its
\* executionStopTime, else its stopTime; when neither sub-record exists the result is
\* empty, named with the record's name (the task id when it has none), and is rendered
\* as the no-execution block.
C18_FirstMatchWins ==
    Returned /\ nin.res.status \in 200..299 /\ nin.txt.kind = "json" =>
        LET operational == Get(nin.txt.doc, "operational")
            first == Get(operational, "lastExecutionResult")
            second == Get(operational, "lastExecution")
            used == IF Truthy(first) THEN first ELSE second
        IN  IF Truthy(first) \/ Truthy(second)
            THEN /\ IsResult(nout)
                 /\ nout.start = Prefer(used, "executionStartTime", "startTime")
                 /\ nout.stop = Prefer(used, "executionStopTime", "stopTime")
            ELSE /\ IsEmpty(nout)
                 /\ nout.name = IF Truthy(Get(nin.txt.doc, "name"))
                                THEN Get(nin.txt.doc, "name") ELSE JStr(nin.taskId)
                 /\ (npc = "rendered" => nblock.kind = "no-execution")

\* both sub-records exist, a running one under lastExecutionResult and a finished one
\* under lastExecution: the result has no stop time
C18_Witness ==
    /\ npc = "rendered"
    /\ nin.res.status = 200
    /\ nin.txt = JsonBody(TaskDoc(JStr(T_ReloadA), LerRunning, LerSucceeded))
    /\ nout.start = Iso(36000) /\ nout.stop = JNull /\ nout.running

-----------------------------------------------------------------------------
(* Claims about qrsFetch (SpecFetch) *)

\* the token in the xrfkey query parameter, which ends the URL
UrlToken(url) == SubSeq(url, Len(url) - TokenLen + 1, Len(url))

\* the headers the caller passed, if any
CallerHeaders == IF "headers" \in DOMAIN nin.opts THEN nin.opts.headers ELSE <<>>

\* C13: with or without caller headers, the request issued carries X-Qlik-Xrfkey equal
\* to the token of the URL's xrfkey parameter and Accept: application/json, together with
\* every header of the caller; one of the two is replaced only by a caller header of the
\* same key.
C13_TokenHeaderAlways ==
    npc = "fetch-issued" =>
        LET sent == nout.init.headers IN
        /\ \A k \in DOMAIN CallerHeaders : k \in DOMAIN sent /\ sent[k] = CallerHeaders[k]
        /\ "XQlikXrfkey" \in DOMAIN sent
        /\ "Accept" \in DOMAIN sent
        /\ ("XQlikXrfkey" \notin DOMAIN CallerHeaders => sent.XQlikXrfkey = UrlToken(nout.url))
        /\ ("Accept" \notin DOMAIN CallerHeaders => sent.Accept = T_appjson)

-----------------------------------------------------------------------------
(* Claims about the formatters (SpecFmt) *)

\* "DD/MM/YYYY, HH:MM:SS"
IsDateTimeText(t) ==
    /\ Len(t) = 20
    /\ t[3] = "/" /\ t[6] = "/" /\ t[11] = "," /\ t[12] = " " /\ t[15] = ":" /\ t[18] = ":"
    /\ \A i \in (1..20) \ {3, 6, 11, 12, 15, 18} : IsDigit(t[i])

\* the value can be parsed as a date
Parseable(v) == ~NewDate(v).nan

\* C19 as stated: the placeholder for every value that is absent or cannot be parsed, the
\* fixed-format date and time for every value that can, and never the text of the input.
C19_PlaceholderOrFormatted ==
    npc = "fmtDate-returned" =>
        /\ (nin.value = JNull \/ ~Parseable(nin.value) => nout = Dash)
        /\ (Parseable(nin.value) => IsDateTimeText(nout))
        /\ (nin.value.t = "str" => nout # nin.value.s)

\* C19, amended: the placeholder for every value that is absent, empty or zero; the text
\* of the value itself for every other value that cannot be parsed as a date; the
\* fixed-format date and time for every other value.
C19_Amended ==
    npc = "fmtDate-returned" =>
        /\ (~Truthy(nin.value) => nout = Dash)
        /\ (Truthy(nin.value) /\ ~Parseable(nin.value) =>
              nin.value.t = "str" /\ nout = nin.value.s /\ nout # Dash)
        /\ (Truthy(nin.value) /\ Parseable(nin.value) => IsDateTimeText(nout))

\* "garbage" comes back as it went in
C19_Witness ==
    /\ npc = "fmtDate-returned"
    /\ nin.value = JStr(T_garbage)
    /\ nout = T_garbage

\* the position of the first c in t
IndexOf(t, c) == CHOOSE i \in DOMAIN t : t[i] = c /\ \A j \in 1..(i - 1) : t[j] # c

RECURSIVE StrToNat(_)
StrToNat(t) ==
    IF t = <<>> THEN 0
    ELSE 10 * StrToNat(SubSeq(t, 1, Len(t) - 1)) + DigitVal(t[Len(t)])

\* the three numbers of a text "<h>h <m>m <s>s"
HoursOf(t) == StrToNat(SubSeq(t, 1, IndexOf(t, "h") - 1))
MinutesOf(t) == StrToNat(SubSeq(t, IndexOf(t, "h") + 2, IndexOf(t, "m") - 1))
SecondsOf(t) == StrToNat(SubSeq(t, IndexOf(t, "m") + 2, IndexOf(t, "s") - 1))
TotalSeconds(t) == HoursOf(t) * 3600 + MinutesOf(t) * 60 + SecondsOf(t)

\* t reads "<h>h <m>m <s>s" with three decimal numbers
IsHMS(t) ==
    /\ {"h", "m", "s"} \subseteq Range(t)
    /\ 1 < IndexOf(t, "h") /\ IndexOf(t, "h") + 2 < IndexOf(t, "m")
    /\ IndexOf(t, "m") + 2 < IndexOf(t, "s") /\ IndexOf(t, "s") = Len(t)
    /\ t[IndexOf(t, "h") + 1] = " " /\ t[IndexOf(t, "m") + 1] = " "
    /\ \A i \in DOMAIN t :
          i \notin {IndexOf(t, "h"), IndexOf(t, "h") + 1, IndexOf(t, "m"),
                    IndexOf(t, "m") + 1, IndexOf(t, "s")} => IsDigit(t[i])

IsNumber(x) == x # JNull /\ ~x.nan

\* C20: for numbers a and b, the text for a reads "<h>h <m>m <s>s" with m and s in 0..59
\* and h the whole hours (beyond 23 when the duration is a day or more); a negative a
\* gives "0h 0m 0s", which is also what 0 gives; for a >= 0 the seconds rendered differ
\* from a by at most half a second; and for 0 <= a <= b the seconds rendered for a are
\* at most those rendered for b.
C20_ClampRoundMonotonic ==
    npc = "fmtMs-returned" /\ IsNumber(nin.a) /\ IsNumber(nin.b) =>
        /\ IsHMS(nout.a)
        /\ MinutesOf(nout.a) \in 0..59 /\ SecondsOf(nout.a) \in 0..59
        /\ (nin.a.v < 0 => nout.a = <<"0","h"," ","0","m"," ","0","s">>)
        /\ (nin.a.v < 0 /\ nin.b.v = 0 => nout.a = nout.b)
        /\ (nin.a.v >= 0 =>
              /\ 1000 * TotalSeconds(nout.a) - nin.a.v <= 500
              /\ nin.a.v - 1000 * TotalSeconds(nout.a) <= 500)
        /\ (0 <= nin.a.v /\ nin.a.v <= nin.b.v => TotalSeconds(nout.a) <= TotalSeconds(nout.b))

\* 86399.5 s is rendered as a full day, 25 h 1 m 1 s as "25h 1m 1s"
C20_Witness ==
    /\ npc = "fmtMs-returned"
    /\ nin.a = Num(86399500) /\ nin.b = Num(90061000)
    /\ nout.a = <<"2","4","h"," ","0","m"," ","0","s">>
    /\ nout.b = <<"2","5","h"," ","1","m"," ","1","s">>

=============================================================================
